---- MODULE Spec2Model ----
(***************************************************************************)
(* Relayer core of AION: TransactionQueue (server/relayer/queue.ts),       *)
(* TransactionExecutor (relayer executor) and TransferValidator (relayer   *)
(* validator), over the signed_transfers / transaction_logs tables and an  *)
(* abstract chain.  Every `await` of the source is a step boundary: the    *)
(* database operation (or RPC) awaited and the synchronous code that       *)
(* follows it up to the next await form one action.                        *)
(***************************************************************************)
EXTENDS Integers, Sequences, FiniteSets, TLC

\* ---------------------------------------------------------------- bounds
MaxTransfers == 2      \* rows the signed_transfers table may hold
MaxNonce == 2          \* distinct nonces clients use
MaxTime == 2           \* wall clock, in seconds
MaxLog == 8            \* events per transfer in transaction_logs
MaxTx == 2             \* transactions the relayer wallet may broadcast
MaxSubs == 2           \* submitTransfer calls in flight
MaxPQ == 2             \* overlapping processQueue invocations
MaxFaults == 1         \* failed oracle reads, failed transactions and crashes in one behaviour
MaxClients == 2           \* client addresses and WebSocket connections
MaxInbox == 3             \* messages written to one WebSocket connection

\* ------------------------------------------------------ program constants
DefaultMaxConcurrent == 3
MinConcurrent == 1
MaxConcurrent == 10
MaxRetries == 3
RetryQueueMaxRetries == 3
RetryQueueLimit == 5

Null == 0
Never == 0 - 1

Ids == 1..MaxTransfers
Clients == 1..MaxClients
Nonces == 1..MaxNonce
Deadlines == {0, MaxTime + 1}
AdminInputs == {0, 11}
\* processQueue invocations: MaxPQ overlap in general, one more where stale selections matter
Invocations == 1..(MaxPQ + 1)

VARIABLES
    now,                      \* Date.now(), in seconds
    signedTransfers,          \* table signed_transfers: row id = index
    transactionLogs,          \* table transaction_logs, per transfer id, in insertion order
    failedAt,                 \* transaction_logs.timestamp of the latest "failed" event, per id
    chain,                    \* transactions broadcast by the relayer; hash = index
    usedNonces,               \* contract view usedNonces
    isProcessing,             \* TransactionQueue.isProcessing
    maxConcurrentExecutions,  \* TransactionQueue.maxConcurrentExecutions
    currentExecutions,        \* TransactionQueue.currentExecutions
    processingQueue,          \* TransactionExecutor.processingQueue (keys)
    exec,                     \* per id: the executeSignedTransfer call past the guard
    timers,                   \* setTimeout retry timers of the executor
    pq,                       \* processQueue invocations in flight
    subs,                     \* submitTransfer calls in flight
    response,                 \* what the latest submitTransfer call to return answered
    boots,                    \* restarts of the process so far
    wsMessages,               \* per id: the messages handed to WebSocketManager, in order
    rateLimitMap,             \* routes.ts rateLimitMap: per client address, the admitted requests
    httpAnswer,               \* the latest answer of the relayer router
    clients,                  \* WebSocketManager.clients: clientId -> its subscriptions
    subscriptions,            \* WebSocketManager.subscriptions: topic -> clientIds
    sockets,                  \* per connection: the ws socket and the peer behind it
    faults                    \* environment faults so far

vars == <<now, signedTransfers, transactionLogs, failedAt, chain, usedNonces, isProcessing,
          maxConcurrentExecutions, currentExecutions, processingQueue, exec,
          timers, pq, subs, response, boots, wsMessages, rateLimitMap, httpAnswer,
          clients, subscriptions, sockets, faults>>

dbVars == <<signedTransfers, transactionLogs, failedAt>>
chainVars == <<chain, usedNonces>>
queueVars == <<isProcessing, maxConcurrentExecutions, currentExecutions>>
execVars == <<processingQueue, exec>>
wsVars == <<clients, subscriptions, sockets>>
edgeVars == <<rateLimitMap, httpAnswer, wsVars>>
otherVars == <<subs, response, boots, wsMessages, edgeVars>>

\* ------------------------------------------------------------- helpers
Min(a, b) == IF a < b THEN a ELSE b
Max(a, b) == IF a > b THEN a ELSE b

RECURSIVE Pow2(_)
Pow2(n) == IF n = 0 THEN 1 ELSE 2 * Pow2(n - 1)

RowIds == 1..Len(signedTransfers)

\* ids of a set in ascending order (serial ids follow createdAt)
RECURSIVE SortedSeq(_)
SortedSeq(S) ==
    IF S = {} THEN <<>>
    ELSE LET m == CHOOSE x \in S : \A y \in S : x <= y
         IN <<m>> \o SortedSeq(S \ {m})

Take(s, n) == SubSeq(s, 1, Min(Len(s), n))

\* ------------------------------------------------------------ validator
\* error strings of validateSignedTransfer
ErrAmountZero == "Amount must be greater than zero"
ErrAmountFormat == "Invalid amount format"
ErrDeadline == "Transfer deadline has expired"
ErrSigInvalid == "Invalid EIP-712 signature"
ErrSigFailed == "EIP-712 signature verification failed"
ErrNonceDb == "Nonce already used"
ErrNonceChain == "Nonce already used on-chain"
ErrNonceRead == "Failed to check nonce status on-chain"
ErrFunds == "Insufficient locked funds"
ErrBalanceRead == "Failed to check sender balance"
ErrLockout == "Sender is in withdrawal lockout period"
ErrGraceRead == "Failed to check grace period status"

\* what the message and the oracle (RPC reads) turn out to be
Oracles == [amount : {"pos", "zero", "bad"},
            sig : {"ok", "mismatch", "throws"},
            nonceRead : {"ok", "fail"},
            balance : {"enough", "low", "fail"},
            grace : {"none", "grace", "lockout", "fail"}]

\* a stored row was accepted at ingest: its amount parses and its signature recovers
StoredOracles == {o \in Oracles : o.amount = "pos" /\ o.sig = "ok"}

\* a store that finds no row for any nonce
RelevantTransfersNone(nonce, excludeTransferId) == {}

\* line 196-204: the rows of the store with this nonce, but for the row under re-validation
RelevantTransfers(nonce, excludeTransferId) ==
    LET existingTransfer == {i \in RowIds : signedTransfers[i].nonce = nonce}
    IN IF excludeTransferId # Null
       THEN existingTransfer \ {excludeTransferId}
       ELSE existingTransfer

\* validator.ts line 102-104, with < in place of <=
deadlineCheckStrict(currentTime, deadline) == currentTime < deadline

\* validator.ts line 102-104: currentTime = Math.floor(Date.now() / 1000), a whole
\* number of seconds as the clock of the model, compared with transfer.deadline
deadlineCheck(currentTime, deadline) == currentTime <= deadline

validateSignedTransfer(transfer, excludeTransferId, o) ==
    LET amountValid == o.amount = "pos"
        e1 == CASE o.amount = "zero" -> {ErrAmountZero}
                [] o.amount = "bad" -> {ErrAmountFormat}
                [] OTHER -> {}
        deadlineValid == deadlineCheck(now, transfer.deadline)
        e2 == IF deadlineValid THEN {} ELSE {ErrDeadline}
        sigThrows == o.amount = "bad" \/ o.sig = "throws"
        signatureValid == ~sigThrows /\ o.sig = "ok"
        e3 == IF sigThrows THEN {ErrSigFailed}
              ELSE IF o.sig = "mismatch" THEN {ErrSigInvalid} ELSE {}
        relevantTransfers == RelevantTransfers(transfer.nonce, excludeTransferId)
        dbUnused == relevantTransfers = {}
        e4 == IF dbUnused THEN {} ELSE {ErrNonceDb}
        nonceUsed == o.nonceRead = "ok" /\ transfer.nonce \in usedNonces
        nonceUnused == dbUnused /\ ~nonceUsed
        e5 == IF o.nonceRead = "fail" THEN {ErrNonceRead}
              ELSE IF nonceUsed /\ ErrNonceDb \notin e4 THEN {ErrNonceChain}
              ELSE {}
        balThrows == o.amount = "bad" \/ o.balance = "fail"
        senderHasFunds == ~balThrows /\ o.balance = "enough"
        e6 == IF balThrows THEN {ErrBalanceRead}
              ELSE IF o.balance = "low" THEN {ErrFunds} ELSE {}
        gracePeriodActive == o.grace \in {"none", "grace"}
        e7 == CASE o.grace = "lockout" -> {ErrLockout}
                [] o.grace = "fail" -> {ErrGraceRead}
                [] OTHER -> {}
        errors == e1 \cup e2 \cup e3 \cup e4 \cup e5 \cup e6 \cup e7
        checks == [signatureValid |-> signatureValid,
                   deadlineValid |-> deadlineValid,
                   nonceUnused |-> nonceUnused,
                   senderHasFunds |-> senderHasFunds,
                   gracePeriodActive |-> gracePeriodActive,
                   amountValid |-> amountValid]
    IN [isValid |-> (\A f \in DOMAIN checks : checks[f]) /\ errors = {},
        errors |-> errors,
        checks |-> checks]

\* errors.join("; ").includes(needle) for the two needles the executor uses
JoinedIncludesNonceUsed(errors) == ErrNonceDb \in errors \/ ErrNonceChain \in errors
JoinedIncludesDeadline(errors) == ErrDeadline \in errors

\* reads that succeed and find nothing wrong with the sender
Healthy(o) == o.nonceRead = "ok" /\ o.balance = "enough" /\ o.grace \in {"none", "grace"}

\* one more environment fault, if the budget allows
Fault(isFault) ==
    /\ isFault => faults < MaxFaults
    /\ faults' = IF isFault THEN faults + 1 ELSE faults

\* ------------------------------------------------------------- records
IdleExec == [pc |-> "idle", queued |-> FALSE, snapTx |-> Null, snapBlock |-> Null,
             tx |-> Null, st |-> "none", err |-> "none", announce |-> FALSE]
IdlePQ == [pc |-> "idle", sel |-> <<>>, rsel |-> <<>>]
IdleSub == [pc |-> "idle", nonce |-> Null, deadline |-> Null, id |-> Null]
NoResponse == [nonce |-> Null, success |-> FALSE, transferId |-> Null, errors |-> {}]

NewRow(nonce, deadline, status) ==
    [nonce |-> nonce, deadline |-> deadline, status |-> status, txHash |-> Null,
     blockNumber |-> Null, retryCount |-> 0, createdAt |-> now]

Event(status, txHash) == [status |-> status, txHash |-> txHash]

\* insert into transaction_logs (queue.ts 312-324, executor 360-372)
logTransferEvent(id, status, txHash) ==
    /\ Len(transactionLogs[id]) < MaxLog
    /\ transactionLogs' = [transactionLogs EXCEPT ![id] = Append(@, Event(status, txHash))]
    /\ failedAt' = IF status = "failed" THEN [failedAt EXCEPT ![id] = now] ELSE failedAt

\* WebSocketManager: a message about a transfer, sent to every connected client (no
\* topic) or to the subscribers of the topic transfer:<id>
Message(type, topic) == [type |-> type, topic |-> topic]
NoTopic == "all"
TransferTopic == "transfer"

broadcast(id, type) ==
    wsMessages' = [wsMessages EXCEPT ![id] = Append(@, Message(type, NoTopic))]

\* line 246-257: broadcast, then sendToTransferSubscribers
broadcastConfirmed(id) ==
    wsMessages' = [wsMessages EXCEPT
                      ![id] = Append(Append(@, Message("payment_confirmed", NoTopic)),
                                     Message("payment_confirmed", TransferTopic))]

\* the in-memory state of the router: nothing admitted, nothing answered
NoAnswer == [route |-> "none", status |-> Null]

\* a connection nobody has made yet
NoSocket ==
    [readyState |-> "NONE", pingInterval |-> FALSE, pinged |-> FALSE,
     responsive |-> TRUE, received |-> <<>>]

EdgeInit ==
    /\ rateLimitMap = [c \in Clients |-> <<>>]
    /\ httpAnswer = NoAnswer
    /\ clients = <<>>
    /\ subscriptions = <<>>
    /\ sockets = [c \in Clients |-> NoSocket]

\* -------------------------------------------------------------- Init
Init ==
    /\ now = 0
    /\ signedTransfers = <<>>
    /\ transactionLogs = <<>>
    /\ failedAt = [i \in Ids |-> Never]
    /\ chain = <<>>
    /\ usedNonces = {}
    /\ isProcessing = FALSE
    /\ maxConcurrentExecutions = DefaultMaxConcurrent
    /\ currentExecutions = 0
    /\ processingQueue = {}
    /\ exec = [i \in Ids |-> IdleExec]
    /\ timers = {}
    /\ pq = [p \in Invocations |-> IdlePQ]
    /\ subs = [s \in 1..MaxSubs |-> IdleSub]
    /\ response = NoResponse
    /\ boots = 0
    /\ wsMessages = [i \in Ids |-> <<>>]
    /\ EdgeInit
    /\ faults = 0

\* ------------------------------------------------- TransactionQueue
start ==
    /\ ~isProcessing
    /\ isProcessing' = TRUE
    /\ UNCHANGED <<now, dbVars, chainVars, maxConcurrentExecutions, currentExecutions,
                   execVars, timers, pq, otherVars, faults>>

stop ==
    /\ isProcessing
    /\ isProcessing' = FALSE
    /\ UNCHANGED <<now, dbVars, chainVars, maxConcurrentExecutions, currentExecutions,
                   execVars, timers, pq, otherVars, faults>>

\* the setter without Math.max / Math.min
setMaxConcurrentExecutionsUnclamped(max) ==
    /\ maxConcurrentExecutions' = max
    /\ maxConcurrentExecutions' # maxConcurrentExecutions
    /\ UNCHANGED <<now, dbVars, chainVars, isProcessing, currentExecutions,
                   execVars, timers, pq, otherVars, faults>>

setMaxConcurrentExecutions(max) ==
    /\ maxConcurrentExecutions' = Max(MinConcurrent, Min(MaxConcurrent, max))
    /\ maxConcurrentExecutions' # maxConcurrentExecutions
    /\ UNCHANGED <<now, dbVars, chainVars, isProcessing, currentExecutions,
                   execVars, timers, pq, otherVars, faults>>

Tick ==
    /\ now < MaxTime
    /\ now' = now + 1
    /\ UNCHANGED <<dbVars, chainVars, queueVars, execVars, timers, pq, otherVars, faults>>

\* --------------------------------------------- TransactionQueue.submitTransfer
ErrUnique == "duplicate key value violates unique constraint"

InsertsInFlight == Cardinality({s \in 1..MaxSubs : subs[s].pc = "insert"})

\* a table without the constraint
NonceTakenUnchecked(nonce) == FALSE

\* the unique constraint of signed_transfers.nonce
NonceTaken(nonce) == \E i \in RowIds : signedTransfers[i].nonce = nonce

\* what submitTransfer returns for the message with this nonce
Response(nonce, success, transferId, errors) ==
    [nonce |-> nonce, success |-> success, transferId |-> transferId, errors |-> errors]

\* line 80-89: validate; a failing validation returns its errors
submitValidate(s, nonce, deadline, o) ==
    LET validation == validateSignedTransfer([nonce |-> nonce, deadline |-> deadline], Null, o)
    IN /\ subs[s].pc = "idle"
       /\ \A r \in 1..(s - 1) : subs[r].pc # "idle"
       /\ validation.isValid => Len(signedTransfers) + InsertsInFlight < MaxTransfers
       /\ IF validation.isValid
          THEN /\ subs' = [subs EXCEPT ![s] = [IdleSub EXCEPT !.pc = "insert", !.nonce = nonce,
                                                              !.deadline = deadline]]
               /\ UNCHANGED response
          ELSE /\ response' = Response(nonce, FALSE, Null, validation.errors)
               /\ UNCHANGED subs
       /\ UNCHANGED <<now, dbVars, chainVars, queueVars, execVars, timers, pq, boots, wsMessages,
                   faults>>
       /\ UNCHANGED edgeVars

\* line 94-107: insert with status "received"; the store rejects a duplicate nonce and
\* the catch of line 153 returns the store's message
\* the insert of a table whose nonce column carries no unique constraint
submitInsertUnconstrained(s) ==
    /\ subs[s].pc = "insert"
    /\ signedTransfers' = Append(signedTransfers,
                                 NewRow(subs[s].nonce, subs[s].deadline, "received"))
    /\ transactionLogs' = Append(transactionLogs, <<>>)
    /\ subs' = [subs EXCEPT ![s].pc = "logReceived", ![s].deadline = Null,
                            ![s].id = Len(signedTransfers) + 1]
    /\ UNCHANGED <<failedAt, response>>
    /\ UNCHANGED <<now, chainVars, queueVars, execVars, timers, pq, boots, wsMessages, faults>>
    /\ UNCHANGED edgeVars

submitInsert(s) ==
    /\ subs[s].pc = "insert"
    /\ IF NonceTaken(subs[s].nonce)
       THEN /\ response' = Response(subs[s].nonce, FALSE, Null, {ErrUnique})
            /\ subs' = [subs EXCEPT ![s] = IdleSub]
            /\ UNCHANGED dbVars
       ELSE /\ signedTransfers' = Append(signedTransfers,
                                         NewRow(subs[s].nonce, subs[s].deadline, "received"))
            /\ transactionLogs' = Append(transactionLogs, <<>>)
            /\ subs' = [subs EXCEPT ![s].pc = "logReceived", ![s].deadline = Null,
                                    ![s].id = Len(signedTransfers) + 1]
            /\ UNCHANGED <<failedAt, response>>
    /\ UNCHANGED <<now, chainVars, queueVars, execVars, timers, pq, boots, wsMessages, faults>>
    /\ UNCHANGED edgeVars

\* line 111-115
submitLogReceived(s) ==
    /\ subs[s].pc = "logReceived"
    /\ logTransferEvent(subs[s].id, "received", Null)
    /\ subs' = [subs EXCEPT ![s].pc = "setValidated"]
    /\ UNCHANGED <<now, signedTransfers, chainVars, queueVars, execVars, timers, pq, faults,
                   response, boots, wsMessages>>
    /\ UNCHANGED edgeVars

\* line 119-125: the update of the row to "validated"
submitSetValidated(s) ==
    /\ subs[s].pc = "setValidated"
    /\ signedTransfers' = [signedTransfers EXCEPT ![subs[s].id].status = "validated"]
    /\ subs' = [subs EXCEPT ![s].pc = "logValidated"]
    /\ UNCHANGED <<now, transactionLogs, failedAt, chainVars, queueVars, execVars, timers, pq,
                   faults, response, boots, wsMessages>>
    /\ UNCHANGED edgeVars

\* line 127-151: event, broadcast, wake-up of processQueue, success
submitLogValidated(s) ==
    /\ subs[s].pc = "logValidated"
    /\ logTransferEvent(subs[s].id, "validated", Null)
    /\ broadcast(subs[s].id, "payment_accepted")
    /\ response' = Response(subs[s].nonce, TRUE, subs[s].id, {})
    /\ subs' = [subs EXCEPT ![s] = IdleSub]
    /\ UNCHANGED <<now, signedTransfers, chainVars, queueVars, execVars, timers, pq, boots,
                   faults>>
    /\ UNCHANGED edgeVars

\* ingest is explored on well-formed, correctly signed messages of senders in good
\* standing, every oracle read succeeding
IngestOracles == {o \in StoredOracles : Healthy(o) /\ o.grace = "none"}

submitTransfer ==
    \E s \in 1..MaxSubs :
        \/ \E n \in Nonces, d \in Deadlines, o \in IngestOracles : submitValidate(s, n, d, o)
        \/ submitInsert(s)
        \/ submitLogReceived(s)
        \/ submitSetValidated(s)
        \/ submitLogValidated(s)

\* submitTransfer of an acceptable message, run without interleaving: validation passes,
\* the row is inserted, both events are appended and the row is "validated" (line 77-151)
submitTransferAccepted(nonce, deadline, o) ==
    LET validation == validateSignedTransfer([nonce |-> nonce, deadline |-> deadline], Null, o)
    IN /\ Len(signedTransfers) < MaxTransfers
       /\ validation.isValid
       /\ ~NonceTaken(nonce)
       /\ signedTransfers' = Append(signedTransfers, NewRow(nonce, deadline, "validated"))
       /\ transactionLogs' = Append(transactionLogs,
                                    <<Event("received", Null), Event("validated", Null)>>)
       /\ broadcast(Len(signedTransfers) + 1, "payment_accepted")
       /\ UNCHANGED <<now, failedAt, chainVars, queueVars, execVars, timers, pq, subs, response,
                      boots, faults>>
       /\ UNCHANGED edgeVars

\* ------------------------------------ TransactionExecutor.executeSignedTransfer
\* finally of line 328 and, for a slot launched by processQueue, the .finally of
\* queue.ts line 192
\* the end of a call whose .finally of queue.ts line 192-195 gives no slot back
FinishedKeepsSlot(id) ==
    /\ exec' = [exec EXCEPT ![id] = IdleExec]
    /\ processingQueue' = processingQueue \ {id}
    /\ UNCHANGED currentExecutions

Finished(id) ==
    /\ exec' = [exec EXCEPT ![id] = IdleExec]
    /\ processingQueue' = processingQueue \ {id}
    /\ currentExecutions' = IF exec[id].queued THEN currentExecutions - 1
                            ELSE currentExecutions

\* line 85-108: load the row; anything but "validated" returns
\* part_006 line 83-96 without the test of the status
execLoadAnyStatus(id) ==
    /\ exec[id].pc = "load"
    /\ exec' = [exec EXCEPT ![id].pc = "validate",
                             ![id].snapTx = signedTransfers[id].txHash,
                             ![id].snapBlock = signedTransfers[id].blockNumber]
    /\ UNCHANGED <<processingQueue, currentExecutions>>
    /\ UNCHANGED <<now, dbVars, chainVars, isProcessing, maxConcurrentExecutions, timers, pq,
                   otherVars, faults>>

execLoad(id) ==
    /\ exec[id].pc = "load"
    /\ IF signedTransfers[id].status # "validated"
       THEN Finished(id)
       ELSE /\ exec' = [exec EXCEPT ![id].pc = "validate",
                                    ![id].snapTx = signedTransfers[id].txHash,
                                    ![id].snapBlock = signedTransfers[id].blockNumber]
            /\ UNCHANGED <<processingQueue, currentExecutions>>
    /\ UNCHANGED <<now, dbVars, chainVars, isProcessing, maxConcurrentExecutions, timers, pq,
                   otherVars, faults>>

\* line 111-147: the status the executor writes after re-validation
StatusAfterValidation(validation, txHash, blockNumber) ==
    IF validation.isValid THEN "pending"
    ELSE IF JoinedIncludesNonceUsed(validation.errors) /\ txHash # Null /\ blockNumber # Null
         THEN "confirmed"
    ELSE IF JoinedIncludesNonceUsed(validation.errors) \/ JoinedIncludesDeadline(validation.errors)
         THEN "permanently_failed"
    ELSE "failed"

\* line 110: the re-validation of the loaded row
Revalidate(id, o) ==
    LET validation == validateSignedTransfer(signedTransfers[id], id, o)
    IN /\ exec[id].pc = "validate"
       /\ exec' = [exec EXCEPT ![id].pc = "setStatus",
                               ![id].snapTx = Null, ![id].snapBlock = Null,
                               ![id].st = StatusAfterValidation(validation, exec[id].snapTx,
                                                                exec[id].snapBlock)]
       /\ UNCHANGED <<now, dbVars, chainVars, queueVars, processingQueue, timers, pq, otherVars>>

execValidate(id, o) == Fault(~Healthy(o)) /\ Revalidate(id, o)

\* updateTransferStatus, line 352-355: the row update
execSetStatus(id) ==
    /\ exec[id].pc = "setStatus"
    /\ signedTransfers' = [signedTransfers EXCEPT ![id].status = exec[id].st]
    /\ exec' = [exec EXCEPT ![id].pc = "logStatus"]
    /\ UNCHANGED <<now, transactionLogs, failedAt, chainVars, queueVars, processingQueue,
                   timers, pq, otherVars, faults>>

\* updateTransferStatus, line 357: the event, and the broadcast that follows the call
\* (line 148, 272, 321; none after a failed re-validation or a race recovery); after
\* "pending" the slot goes on to submit
execLogStatus(id) ==
    /\ exec[id].pc = "logStatus"
    /\ logTransferEvent(id, exec[id].st, Null)
    /\ IF exec[id].st = "pending"
       THEN /\ exec' = [exec EXCEPT ![id].pc = "submit", ![id].st = "none"]
            /\ broadcast(id, "payment_pending")
            /\ UNCHANGED <<processingQueue, currentExecutions>>
       ELSE /\ Finished(id)
            /\ IF exec[id].announce THEN broadcast(id, "payment_failed")
               ELSE UNCHANGED wsMessages
    /\ UNCHANGED <<now, signedTransfers, chainVars, isProcessing, maxConcurrentExecutions,
                   timers, pq, subs, response, boots, faults>>
    /\ UNCHANGED edgeVars

\* line 163-199: contract.execute*Transfer returns a transaction or throws
execSubmit(id, outcome) ==
    /\ exec[id].pc = "submit"
    /\ Fault(outcome # "sent")
    /\ IF outcome = "sent"
       THEN /\ Len(chain) < MaxTx
            /\ chain' = Append(chain, [id |-> id, nonce |-> signedTransfers[id].nonce,
                                       state |-> "sent"])
            /\ exec' = [exec EXCEPT ![id].pc = "saveHash", ![id].tx = Len(chain) + 1]
       ELSE /\ exec' = [exec EXCEPT ![id].pc = "catch", ![id].err = outcome]
            /\ UNCHANGED chain
    /\ UNCHANGED <<now, dbVars, usedNonces, queueVars, processingQueue, timers, pq, otherVars>>

\* line 201-213
execSaveHash(id) ==
    /\ exec[id].pc = "saveHash"
    /\ signedTransfers' = [signedTransfers EXCEPT ![id].txHash = exec[id].tx]
    /\ exec' = [exec EXCEPT ![id].pc = "wait"]
    /\ broadcast(id, "payment_submitted")
    /\ UNCHANGED <<now, transactionLogs, failedAt, chainVars, queueVars, processingQueue,
                   timers, pq, subs, response, boots, faults>>
    /\ UNCHANGED edgeVars

\* line 219-227, 269-271: tx.wait() returns the receipt of the mined transaction or throws
execWait(id, outcome) ==
    /\ exec[id].pc = "wait"
    /\ Fault(outcome # "receipt")
    /\ IF outcome = "receipt"
       THEN /\ chain[exec[id].tx].state # "sent"
            /\ exec' = IF chain[exec[id].tx].state = "success"
                       THEN [exec EXCEPT ![id].pc = "confirm"]
                       ELSE [exec EXCEPT ![id].pc = "setStatus", ![id].st = "failed",
                                         ![id].tx = Null, ![id].announce = TRUE]
       ELSE exec' = [exec EXCEPT ![id].pc = "catch", ![id].err = outcome, ![id].tx = Null]
    /\ UNCHANGED <<now, dbVars, chainVars, queueVars, processingQueue, timers, pq, otherVars>>

\* line 231-238
execConfirm(id) ==
    /\ exec[id].pc = "confirm"
    /\ signedTransfers' = [signedTransfers EXCEPT ![id].status = "confirmed",
                                                  ![id].blockNumber = exec[id].tx]
    /\ exec' = [exec EXCEPT ![id].pc = "logConfirmed"]
    /\ UNCHANGED <<now, transactionLogs, failedAt, chainVars, queueVars, processingQueue,
                   timers, pq, otherVars, faults>>

\* line 240-268
execLogConfirmed(id) ==
    /\ exec[id].pc = "logConfirmed"
    /\ logTransferEvent(id, "confirmed", exec[id].tx)
    /\ broadcastConfirmed(id)
    /\ Finished(id)
    /\ UNCHANGED <<now, signedTransfers, chainVars, isProcessing, maxConcurrentExecutions,
                   timers, pq, subs, response, boots, faults>>
    /\ UNCHANGED edgeVars

\* line 374-388 applied to the class of the thrown error
isRetryableError(err) == err = "retryable"

\* line 280-303, 319-320: the catch block up to its first write
execCatch(id) ==
    LET newRetryCount == signedTransfers[id].retryCount + 1
    IN /\ exec[id].pc = "catch"
       /\ IF isRetryableError(exec[id].err) /\ newRetryCount <= MaxRetries
          THEN /\ signedTransfers' = [signedTransfers EXCEPT ![id].retryCount = newRetryCount]
               /\ exec' = [exec EXCEPT ![id].pc = "logRetry", ![id].err = "none"]
          ELSE /\ signedTransfers' = [signedTransfers EXCEPT ![id].status = "failed"]
               /\ exec' = [exec EXCEPT ![id].pc = "logStatus", ![id].st = "failed",
                                       ![id].err = "none", ![id].announce = TRUE]
       /\ UNCHANGED <<now, transactionLogs, failedAt, chainVars, queueVars, processingQueue,
                      timers, pq, otherVars, faults>>

\* line 305-315: the retry event and the timer
execLogRetry(id) ==
    /\ exec[id].pc = "logRetry"
    /\ logTransferEvent(id, "retry", Null)
    /\ timers' = timers \cup {[id |-> id, due |-> now + Pow2(signedTransfers[id].retryCount)]}
    /\ Finished(id)
    /\ UNCHANGED <<now, signedTransfers, chainVars, isProcessing, maxConcurrentExecutions,
                   pq, otherVars, faults>>

\* the timer's call of executeSignedTransfer without the test of line 77
retryTimerUnguarded(t) ==
    /\ now >= t.due
    /\ timers' = timers \ {t}
    /\ exec' = [exec EXCEPT ![t.id] = [IdleExec EXCEPT !.pc = "load"]]
    /\ processingQueue' = processingQueue \cup {t.id}
    /\ UNCHANGED <<now, dbVars, chainVars, queueVars, pq, otherVars, faults>>

\* line 311-313: the timer calls executeSignedTransfer; line 77-81: the per-id guard
retryTimer(t) ==
    /\ now >= t.due
    /\ timers' = timers \ {t}
    /\ IF t.id \in processingQueue
       THEN UNCHANGED execVars
       ELSE /\ exec' = [exec EXCEPT ![t.id] = [IdleExec EXCEPT !.pc = "load"]]
            /\ processingQueue' = processingQueue \cup {t.id}
    /\ UNCHANGED <<now, dbVars, chainVars, queueVars, pq, otherVars, faults>>

SubmitOutcomes == {"sent", "retryable", "fatal"}
WaitOutcomes == {"receipt", "retryable", "fatal"}
MineOutcomes == {"success", "reverted"}

executeSignedTransfer ==
    \E id \in RowIds :
        \/ execLoad(id)
        \/ \E o \in StoredOracles : execValidate(id, o)
        \/ execSetStatus(id)
        \/ execLogStatus(id)
        \/ \E outcome \in SubmitOutcomes : execSubmit(id, outcome)
        \/ execSaveHash(id)
        \/ \E outcome \in WaitOutcomes : execWait(id, outcome)
        \/ execConfirm(id)
        \/ execLogConfirmed(id)
        \/ execCatch(id)
        \/ execLogRetry(id)

\* the executor when nothing fails: no error is thrown and every read succeeds
executeWithoutFailure ==
    \E id \in RowIds :
        \/ execLoad(id)
        \/ \E o \in {x \in StoredOracles : Healthy(x)} : execValidate(id, o)
        \/ execSetStatus(id)
        \/ execLogStatus(id)
        \/ execSubmit(id, "sent")
        \/ execSaveHash(id)
        \/ execWait(id, "receipt")
        \/ execConfirm(id)
        \/ execLogConfirmed(id)

\* ------------------------------------------------------------- chain
\* a broadcast transaction is mined: the contract consumes the nonce, or reverts
Mine(h, outcome) ==
    /\ chain[h].state = "sent"
    /\ outcome = "success" => chain[h].nonce \notin usedNonces
    /\ Fault(outcome = "reverted" /\ chain[h].nonce \notin usedNonces)
    /\ chain' = [chain EXCEPT ![h].state = outcome]
    /\ usedNonces' = IF outcome = "success" THEN usedNonces \cup {chain[h].nonce}
                     ELSE usedNonces
    /\ UNCHANGED <<now, dbVars, queueVars, execVars, timers, pq, otherVars>>

\* --------------------------------------------- TransactionQueue.processQueue
\* line 170-180: the rows the select returns, oldest first, at most limit of them
\* (the filter of line 176 is read as drizzle's not(); status = "validated" implies it)
\* the select of line 170-180 ordered by createdAt descending
ValidatedRowsNewestFirst(limit) ==
    LET oldestFirst == SortedSeq({i \in RowIds : signedTransfers[i].status = "validated"})
    IN  Take([k \in 1..Len(oldestFirst) |-> oldestFirst[Len(oldestFirst) + 1 - k]], limit)

ValidatedRows(limit) ==
    Take(SortedSeq({i \in RowIds : /\ signedTransfers[i].status = "validated"
                                   /\ ~(signedTransfers[i].status = "permanently_failed")}),
         limit)

\* line 215-224
RetryableRows ==
    LET ids == Take(SortedSeq({i \in RowIds :
                                  /\ signedTransfers[i].status = "failed"
                                  /\ signedTransfers[i].retryCount < RetryQueueMaxRetries}),
                    RetryQueueLimit)
    IN [k \in 1..Len(ids) |-> [id |-> ids[k], retryCount |-> signedTransfers[ids[k]].retryCount]]

\* line 184-196: the launch loop; a call stopped by the per-id guard returns at once and
\* its .finally gives the slot back after the loop
RECURSIVE LaunchLoop(_, _, _, _, _)
LaunchLoop(sel, cur, guard, ex, returned) ==
    IF sel = <<>> \/ cur >= maxConcurrentExecutions
    THEN [cur |-> cur - returned, guard |-> guard, ex |-> ex]
    ELSE LET id == Head(sel)
         IN IF id \in guard
            THEN LaunchLoop(Tail(sel), cur + 1, guard, ex, returned + 1)
            ELSE LaunchLoop(Tail(sel), cur + 1, guard \cup {id},
                            [ex EXCEPT ![id] = [IdleExec EXCEPT !.pc = "load", !.queued = TRUE]],
                            returned)

\* line 162-180: the guard and the select of validated rows
pqStart(p) ==
    /\ pq[p].pc = "idle"
    /\ \A q \in 1..(p - 1) : pq[q].pc # "idle"
    /\ isProcessing
    /\ currentExecutions < maxConcurrentExecutions
    /\ pq' = [pq EXCEPT ![p].pc = "launch",
                        ![p].sel = ValidatedRows(maxConcurrentExecutions - currentExecutions)]
    /\ UNCHANGED <<now, dbVars, chainVars, queueVars, execVars, timers, otherVars, faults>>

\* line 184-199, 215-224: launch the slots, then select the retryable rows
pqLaunch(p) ==
    LET r == LaunchLoop(pq[p].sel, currentExecutions, processingQueue, exec, 0)
    IN /\ pq[p].pc = "launch"
       /\ currentExecutions' = r.cur
       /\ processingQueue' = r.guard
       /\ exec' = r.ex
       /\ pq' = [pq EXCEPT ![p] = IF RetryableRows = <<>> THEN IdlePQ
                                  ELSE [pc |-> "retry", sel |-> <<>>, rsel |-> RetryableRows]]
       /\ UNCHANGED <<now, dbVars, chainVars, isProcessing, maxConcurrentExecutions, timers,
                      otherVars, faults>>

\* the for loop of line 226 moves to the next selected row, or ends
NextRetry(p) == IF Len(pq[p].rsel) > 1
                THEN [pq EXCEPT ![p].pc = "retry", ![p].rsel = Tail(@)]
                ELSE [pq EXCEPT ![p] = IdlePQ]

\* line 227-230: the backoff test of processRetryQueue, on the row as selected
RetryDue(transfer) ==
    LET timeSinceLastRetry == now - signedTransfers[transfer.id].createdAt
        retryDelay == Pow2(transfer.retryCount)
    IN timeSinceLastRetry >= retryDelay

\* line 226-235: next selected row: the backoff test and the update to "validated"
pqRetry(p) ==
    LET transfer == Head(pq[p].rsel)
    IN /\ pq[p].pc = "retry"
       /\ IF RetryDue(transfer)
          THEN /\ signedTransfers' = [signedTransfers EXCEPT ![transfer.id].status = "validated"]
               /\ pq' = [pq EXCEPT ![p].pc = "retryLog"]
          ELSE /\ pq' = NextRetry(p)
               /\ UNCHANGED signedTransfers
       /\ UNCHANGED <<now, transactionLogs, failedAt, chainVars, queueVars, execVars,
                      timers, otherVars, faults>>

\* line 237-241
pqRetryLog(p) ==
    /\ pq[p].pc = "retryLog"
    /\ logTransferEvent(Head(pq[p].rsel).id, "retry_queued", Null)
    /\ pq' = NextRetry(p)
    /\ UNCHANGED <<now, signedTransfers, chainVars, queueVars, execVars, timers, otherVars, faults>>

processQueue ==
    \E p \in 1..MaxPQ : pqStart(p) \/ pqLaunch(p) \/ pqRetry(p) \/ pqRetryLog(p)

\* the process dies and is started again: the tables and the chain stay, memory is new
Restart ==
    /\ Fault(TRUE)
    /\ isProcessing' = FALSE
    /\ maxConcurrentExecutions' = DefaultMaxConcurrent
    /\ currentExecutions' = 0
    /\ processingQueue' = {}
    /\ exec' = [i \in Ids |-> IdleExec]
    /\ timers' = {}
    /\ pq' = [p \in Invocations |-> IdlePQ]
    /\ subs' = [s \in 1..MaxSubs |-> IdleSub]
    /\ boots' = boots + 1
    /\ rateLimitMap' = [c \in Clients |-> <<>>]
    /\ httpAnswer' = NoAnswer
    /\ clients' = <<>>
    /\ subscriptions' = <<>>
    /\ sockets' = [c \in Clients |-> NoSocket]
    /\ UNCHANGED <<now, dbVars, chainVars, response, wsMessages>>

\* messages the validator accepts when the oracle reads succeed
AcceptedOracles == {o \in Oracles : o.amount = "pos" /\ o.sig = "ok" /\ Healthy(o)}

\* clients number their nonces in the order of submission
NextNonce == Len(signedTransfers) + 1

\* one transfer through its whole lifecycle: ingest of an acceptable message, scheduler,
\* executor, retry timers, chain, clock, and crashes of the process
Next ==
    \/ start
    \/ Tick
    \/ \E d \in Deadlines, o \in AcceptedOracles :
          signedTransfers = <<>> /\ submitTransferAccepted(NextNonce, d, o)
    \/ processQueue
    \/ executeSignedTransfer
    \/ \E t \in timers : retryTimer(t)
    \/ \E h \in 1..Len(chain), outcome \in MineOutcomes : Mine(h, outcome)
    \/ Restart

Spec == Init /\ [][Next]_vars

\* the interval timer keeps calling processQueue, and a started slot or scan runs on
SpecLive ==
    Spec /\ WF_vars(start) /\ WF_vars(processQueue) /\ WF_vars(executeSignedTransfer)

\* several transfers under the concurrency cap and its admin knob, nothing failing
NextCap ==
    \/ start
    \/ \E m \in AdminInputs : setMaxConcurrentExecutions(m)
    \/ \E o \in AcceptedOracles : submitTransferAccepted(NextNonce, MaxTime + 1, o)
    \/ \E p \in 1..MaxPQ : pqStart(p) \/ pqLaunch(p)
    \/ executeWithoutFailure
    \/ \E h \in 1..Len(chain) : Mine(h, "success")

SpecCap == Init /\ [][NextCap]_vars

\* the executor's retry timers under a cap set before the queue is started: the only
\* failure is a retryable error thrown by the submission
executeWithRetryableError ==
    \E id \in RowIds :
        \/ execLoad(id)
        \/ \E o \in {x \in StoredOracles : Healthy(x)} : execValidate(id, o)
        \/ execSetStatus(id)
        \/ execLogStatus(id)
        \/ \E outcome \in {"sent", "retryable"} : execSubmit(id, outcome)
        \/ execSaveHash(id)
        \/ execWait(id, "receipt")
        \/ execConfirm(id)
        \/ execLogConfirmed(id)
        \/ execCatch(id)
        \/ execLogRetry(id)

NextTimer ==
    \/ start
    \/ \E m \in AdminInputs : ~isProcessing /\ setMaxConcurrentExecutions(m)
    \/ Tick
    \/ \E o \in AcceptedOracles : submitTransferAccepted(NextNonce, MaxTime + 1, o)
    \/ \E p \in 1..MaxPQ : pqStart(p) \/ pqLaunch(p)
    \/ executeWithRetryableError
    \/ \E t \in timers : retryTimer(t)
    \/ \E h \in 1..Len(chain) : Mine(h, "success")

SpecTimer == Init /\ [][NextTimer]_vars

\* one transfer between the launch loop and the executor's retry timers
NextGuard ==
    \/ start
    \/ Tick
    \/ \E o \in AcceptedOracles :
          signedTransfers = <<>> /\ submitTransferAccepted(NextNonce, MaxTime + 1, o)
    \/ \E p \in 1..MaxPQ : pqStart(p) \/ pqLaunch(p)
    \/ executeWithRetryableError
    \/ \E t \in timers : retryTimer(t)
    \/ \E h \in 1..Len(chain) : Mine(h, "success")

SpecGuard == Init /\ [][NextGuard]_vars

\* time passes until a retry timer is due
Elapse ==
    /\ \E t \in timers : now < t.due /\ now' = t.due
    /\ UNCHANGED <<dbVars, chainVars, queueVars, execVars, timers, pq, otherVars, faults>>

\* one transfer, no crash: the interval timer keeps calling processQueue, started slots
\* and scans run on, due retry timers fire, the clock moves and the chain mines what it
\* was sent
NextProgress ==
    \/ start
    \/ Tick
    \/ Elapse
    \/ \E o \in AcceptedOracles :
          signedTransfers = <<>> /\ submitTransferAccepted(NextNonce, MaxTime + 1, o)
    \/ processQueue
    \/ executeSignedTransfer
    \/ \E t \in timers : retryTimer(t)
    \/ \E h \in 1..Len(chain) : Mine(h, "success")

SpecProgress ==
    /\ Init /\ [][NextProgress]_vars
    /\ WF_vars(start) /\ WF_vars(Tick) /\ WF_vars(Elapse) /\ WF_vars(processQueue)
    /\ WF_vars(executeSignedTransfer)
    /\ WF_vars(\E t \in timers : retryTimer(t))
    /\ WF_vars(\E h \in 1..Len(chain) : Mine(h, "success"))

\* the reads of the re-validation that matter to a row selected twice: all well, a balance
\* that is too low, a nonce read that fails
StaleOracles ==
    {o \in StoredOracles : /\ o.grace = "none"
                           /\ \/ o.nonceRead = "ok" /\ o.balance \in {"enough", "low"}
                              \/ o.nonceRead = "fail" /\ o.balance = "enough"}

executeStale ==
    \E id \in RowIds :
        \/ execLoad(id)
        \/ \E o \in StaleOracles : Revalidate(id, o) /\ UNCHANGED faults
        \/ execSetStatus(id)
        \/ execLogStatus(id)
        \/ execSubmit(id, "sent")
        \/ execSaveHash(id)
        \/ execWait(id, "receipt")
        \/ execConfirm(id)
        \/ execLogConfirmed(id)

\* one transfer whose deadline passes while it is retried, under overlapping scans
NextStale ==
    \/ start
    \/ Tick
    \/ \E o \in AcceptedOracles :
          signedTransfers = <<>> /\ submitTransferAccepted(NextNonce, MaxTime - 1, o)
    \/ \E p \in Invocations : pqStart(p) \/ pqLaunch(p) \/ pqRetry(p) \/ pqRetryLog(p)
    \/ executeStale
    \/ \E h \in 1..Len(chain) : Mine(h, "success")

SpecStale == Init /\ [][NextStale]_vars

\* line 85-88: the select of the row rejects with an error that isRetryableError accepts
\* (a connection timeout); the row has not been touched
execLoadThrows(id) ==
    /\ exec[id].pc = "load"
    /\ exec' = [exec EXCEPT ![id].pc = "catch", ![id].err = "retryable"]
    /\ UNCHANGED <<now, dbVars, chainVars, queueVars, processingQueue, timers, pq, otherVars,
                   faults>>

\* the reads of a re-validation that finds the balance too low
RetryOracles ==
    {o \in StoredOracles : o.grace = "none" /\ o.nonceRead = "ok" /\ o.balance = "low"}

executeRetry ==
    \E id \in RowIds :
        \/ execLoad(id)
        \/ execLoadThrows(id)
        \/ \E o \in RetryOracles : Revalidate(id, o) /\ UNCHANGED faults
        \/ execSetStatus(id)
        \/ execLogStatus(id)
        \/ execCatch(id)
        \/ execLogRetry(id)

\* one transfer whose executions fail until its retries are exhausted, under the scans
\* of processQueue and the executor's retry timers
NextRetryExhaustion ==
    \/ start
    \/ Elapse
    \/ \E o \in AcceptedOracles :
          signedTransfers = <<>> /\ submitTransferAccepted(NextNonce, MaxTime + 1, o)
    \/ processQueue
    \/ executeRetry
    \/ \E t \in timers : retryTimer(t)

SpecRetry == Init /\ [][NextRetryExhaustion]_vars

\* the ingest path alone, every await of submitTransfer a step; the clock moves between
\* requests
NextIngest ==
    \/ Tick /\ \A s \in 1..MaxSubs : subs[s].pc = "idle"
    \/ submitTransfer

SpecIngest == Init /\ [][NextIngest]_vars

\* the message of an error thrown by the store (connection lost, statement timeout)
ErrStore == "store error"

\* line 153-159: a store operation of submitTransfer rejects (the insert, the update or
\* an event insert); the catch returns the store's message; what was written stays
submitStoreThrows(s) ==
    /\ subs[s].pc \in {"insert", "logReceived", "setValidated", "logValidated"}
    /\ Fault(TRUE)
    /\ response' = Response(subs[s].nonce, FALSE, Null, {ErrStore})
    /\ subs' = [subs EXCEPT ![s] = IdleSub]
    /\ UNCHANGED <<now, dbVars, chainVars, queueVars, execVars, timers, pq, boots, wsMessages>>
    /\ UNCHANGED edgeVars

\* routes.ts line 82-95: the status of the answer to POST /submit; submitTransfer
\* catches every error, so the 500 of line 96-102 needs a throw it never makes
HttpStatus(result) == IF result.success THEN 201 ELSE 400

\* the ingest path with a store that can fail
NextIngestFaults ==
    \/ Tick /\ \A s \in 1..MaxSubs : subs[s].pc = "idle"
    \/ submitTransfer
    \/ \E s \in 1..MaxSubs : submitStoreThrows(s)

SpecIngestFaults == Init /\ [][NextIngestFaults]_vars

\* ------------------------------------------------- the relayer router
Answer(route, status) == [route |-> route, status |-> status]

\* the maxConcurrent of a request body: below, at and above the limits of the range
AdminBodies == {0, 1, 2, 10, 11}

\* routes.ts line 200-222: PUT /admin/concurrency
putAdminConcurrency(authorized, maxConcurrent) ==
    /\ IF ~authorized
       THEN /\ httpAnswer' = Answer("admin", 401)
            /\ UNCHANGED maxConcurrentExecutions
       ELSE IF maxConcurrent < 1 \/ maxConcurrent > 10
       THEN /\ httpAnswer' = Answer("admin", 400)
            /\ UNCHANGED maxConcurrentExecutions
       ELSE /\ maxConcurrentExecutions' = Max(MinConcurrent, Min(MaxConcurrent, maxConcurrent))
            /\ httpAnswer' = Answer("admin", 200)
    /\ UNCHANGED <<now, dbVars, chainVars, isProcessing, currentExecutions, execVars, timers, pq,
                   subs, response, boots, wsMessages, rateLimitMap, wsVars, faults>>

\* one transfer executed without failure while the cap is changed through the admin
\* endpoint and by direct calls of setMaxConcurrentExecutions
NextAdmin ==
    \/ start
    \/ \E authorized \in BOOLEAN, m \in AdminBodies : putAdminConcurrency(authorized, m)
    \/ \E m \in AdminInputs : setMaxConcurrentExecutions(m)
    \/ \E o \in AcceptedOracles :
          signedTransfers = <<>> /\ submitTransferAccepted(NextNonce, MaxTime + 1, o)
    \/ \E p \in 1..MaxPQ : pqStart(p) \/ pqLaunch(p)
    \/ executeWithoutFailure
    \/ \E h \in 1..Len(chain) : Mine(h, "success")

SpecAdmin == Init /\ [][NextAdmin]_vars

\* routes.ts line 57: rateLimit(10, 60000); the clock of the model counts seconds
RateLimitMax == 10
RateLimitWindow == 60

\* the relayer's routes, all behind router.use(rateLimit(...)): the submission endpoint
\* and one of the others
Routes == {"submit", "health"}

\* routes.ts line 44-47: the answer of the limiter, and line 52: next()
Limited(client, route) ==
    [route |-> route, status |-> 429, client |-> client, retryAfter |-> RateLimitWindow]

Passed(client, route) ==
    [route |-> route, status |-> Null, client |-> client, retryAfter |-> Null]

\* routes.ts line 38-41: requests.filter(time => time > windowStart)
recentRequests(client) ==
    SelectSeq(rateLimitMap[client], LAMBDA time : time > now - RateLimitWindow)

\* routes.ts line 28-54: the middleware, run for a request of a client to a route
rateLimit(client, route) ==
    /\ IF Len(recentRequests(client)) >= RateLimitMax
       THEN /\ httpAnswer' = Limited(client, route)
            /\ UNCHANGED rateLimitMap
       ELSE /\ rateLimitMap' = [rateLimitMap EXCEPT ![client] = Append(recentRequests(client), now)]
            /\ httpAnswer' = Passed(client, route)
    /\ UNCHANGED <<now, dbVars, chainVars, queueVars, execVars, timers, pq,
                   subs, response, boots, wsMessages, wsVars, faults>>

\* half a window passes
HalfWindow ==
    /\ now < MaxTime * (RateLimitWindow \div 2)
    /\ now' = now + RateLimitWindow \div 2
    /\ UNCHANGED <<dbVars, chainVars, queueVars, execVars, timers, pq, otherVars, faults>>

\* requests of the clients to the routes while time passes
NextLimit ==
    \/ HalfWindow
    \/ \E client \in Clients, route \in Routes : rateLimit(client, route)

SpecLimit == Init /\ [][NextLimit]_vars

\* -------------------------------------------------------------- WebSocketManager
\* the topics a client may name in a subscribe message
Topics == {TransferTopic, "other"}

Restrict(f, S) == [x \in S |-> f[x]]

\* part_005 line 194-197: the test of sendToClient before the send
Delivers(table, clientId) ==
    clientId \in DOMAIN table /\ sockets[clientId].readyState = "OPEN"

\* part_005 line 158-176: handleDisconnection, for each client of gone in turn; the
\* client table after it, and the topic table after it
clientsWithout(table, gone) == Restrict(table, DOMAIN table \ gone)

subscriptionsWithout(table, topics, gone) ==
    LET left == [t \in DOMAIN topics |->
                    topics[t] \ {c \in gone \cap DOMAIN table : t \in table[c].subscriptions}]
    IN  Restrict(left, {t \in DOMAIN left : left[t] # {}})

\* ws.send wrote the message to the connection
Written(clientId, type) ==
    [sockets EXCEPT ![clientId].received = Append(@, type)]

\* part_005 line 193-206: sendToClient of one message to one client, after the handler
\* left the tables as table and topics; throws: ws.send throws
sendToClient(table, topics, clientId, type, throws) ==
    IF ~Delivers(table, clientId)
    THEN /\ clients' = table
         /\ subscriptions' = topics
         /\ UNCHANGED sockets
    ELSE IF throws
    THEN /\ clients' = clientsWithout(table, {clientId})
         /\ subscriptions' = subscriptionsWithout(table, topics, {clientId})
         /\ UNCHANGED sockets
    ELSE /\ clients' = table
         /\ subscriptions' = topics
         /\ sockets' = Written(clientId, type)

wsRest == <<now, dbVars, chainVars, queueVars, execVars, timers, pq,
            subs, response, boots, wsMessages, rateLimitMap, httpAnswer, faults>>

\* part_005 line 30-78: a connection arrives
handleConnection(clientId, throws) ==
    /\ sockets[clientId].readyState = "NONE"
    /\ LET opened == [sockets EXCEPT ![clientId].readyState = "OPEN",
                                     ![clientId].pingInterval = TRUE]
           table == clients @@ (clientId :> [subscriptions |-> {}])
       IN  IF throws
           THEN /\ clients' = clientsWithout(table, {clientId})
                /\ UNCHANGED subscriptions
                /\ sockets' = opened
           ELSE /\ clients' = table
                /\ UNCHANGED subscriptions
                /\ sockets' = [opened EXCEPT ![clientId].received = Append(@, "connected")]
    /\ UNCHANGED wsRest

\* a message of the peer reaches the manager: the connection is open and the peer alive
Speaks(clientId) ==
    /\ sockets[clientId].readyState = "OPEN"
    /\ sockets[clientId].responsive
    /\ Len(sockets[clientId].received) < MaxInbox
    /\ clientId \in DOMAIN clients

\* part_005 line 109-130: { type: "subscribe", topic }
handleSubscription(clientId, topic, throws) ==
    /\ Speaks(clientId)
    /\ LET table == [clients EXCEPT ![clientId].subscriptions = @ \cup {topic}]
           topics == IF topic \in DOMAIN subscriptions
                     THEN [subscriptions EXCEPT ![topic] = @ \cup {clientId}]
                     ELSE subscriptions @@ (topic :> {clientId})
       IN  sendToClient(table, topics, clientId, "subscribed", throws)
    /\ UNCHANGED wsRest

\* an unsubscribe that clears the client's own set and leaves the topic table alone
handleUnsubscriptionOneTable(clientId, topic, throws) ==
    /\ Speaks(clientId)
    /\ LET table == [clients EXCEPT ![clientId].subscriptions = @ \ {topic}]
       IN  sendToClient(table, subscriptions, clientId, "unsubscribed", throws)
    /\ UNCHANGED wsRest

\* part_005 line 132-156: { type: "unsubscribe", topic }
handleUnsubscription(clientId, topic, throws) ==
    /\ Speaks(clientId)
    /\ LET table == [clients EXCEPT ![clientId].subscriptions = @ \ {topic}]
           topics == IF topic \in DOMAIN subscriptions
                     THEN IF subscriptions[topic] \ {clientId} = {}
                          THEN Restrict(subscriptions, DOMAIN subscriptions \ {topic})
                          ELSE [subscriptions EXCEPT ![topic] = @ \ {clientId}]
                     ELSE subscriptions
       IN  sendToClient(table, topics, clientId, "unsubscribed", throws)
    /\ UNCHANGED wsRest

\* part_005 line 71-77: the ping interval of a connection: a ping is written to an open
\* connection (pinged); no pong is listened for, so the answer of the peer changes nothing
pingTimer(clientId) ==
    /\ sockets[clientId].pingInterval
    /\ IF sockets[clientId].readyState = "OPEN"
       THEN sockets' = [sockets EXCEPT ![clientId].pinged = TRUE]
       ELSE sockets' = [sockets EXCEPT ![clientId].pingInterval = FALSE]
    /\ UNCHANGED <<clients, subscriptions, wsRest>>

\* the peer stops answering while its connection stays open
peerStops(clientId) ==
    /\ sockets[clientId].readyState = "OPEN"
    /\ sockets[clientId].responsive
    /\ sockets' = [sockets EXCEPT ![clientId].responsive = FALSE]
    /\ UNCHANGED <<clients, subscriptions, wsRest>>

\* the transport starts to close the connection: readyState leaves OPEN
socketCloses(clientId) ==
    /\ sockets[clientId].readyState = "OPEN"
    /\ sockets' = [sockets EXCEPT ![clientId].readyState = "CLOSING"]
    /\ UNCHANGED <<clients, subscriptions, wsRest>>

\* part_005 line 62-69: ws.on("close") and ws.on("error")
closeEvent(clientId) ==
    /\ sockets[clientId].readyState = "CLOSING"
    /\ sockets' = [sockets EXCEPT ![clientId].readyState = "CLOSED"]
    /\ clients' = clientsWithout(clients, {clientId})
    /\ subscriptions' = subscriptionsWithout(clients, subscriptions, {clientId})
    /\ UNCHANGED wsRest

\* part_005 line 185-190: the clients a broadcast visits
Targets(topic) ==
    IF topic = NoTopic THEN DOMAIN clients
    ELSE IF topic \in DOMAIN subscriptions THEN subscriptions[topic]
    ELSE {}

BroadcastTypes == {"payment_confirmed"}

\* part_005 line 178-191: broadcast(type, data, topic?); thrown: the visited clients whose
\* ws.send throws
managerBroadcast(type, topic, thrown) ==
    /\ thrown \subseteq {c \in Targets(topic) : Delivers(clients, c)}
    /\ \A c \in Targets(topic) : Len(sockets[c].received) < MaxInbox
    /\ clients' = clientsWithout(clients, thrown)
    /\ subscriptions' = subscriptionsWithout(clients, subscriptions, thrown)
    /\ sockets' = [c \in Clients |->
                      IF c \in Targets(topic) /\ Delivers(clients, c) /\ c \notin thrown
                      THEN [sockets[c] EXCEPT !.received = Append(@, type)]
                      ELSE sockets[c]]
    /\ UNCHANGED wsRest

NextBus ==
    \/ \E c \in Clients, throws \in BOOLEAN : handleConnection(c, throws)
    \/ \E c \in Clients, topic \in Topics, throws \in BOOLEAN :
          \/ handleSubscription(c, topic, throws)
          \/ handleUnsubscription(c, topic, throws)
    \/ \E c \in Clients : pingTimer(c)
    \/ \E c \in Clients : peerStops(c)
    \/ \E c \in Clients : socketCloses(c)
    \/ \E c \in Clients : closeEvent(c)
    \/ \E type \in BroadcastTypes, topic \in Topics \cup {NoTopic}, thrown \in SUBSET Clients :
          managerBroadcast(type, topic, thrown)

\* the interval of every connection keeps firing and an event of the socket is delivered
SpecBus ==
    /\ Init
    /\ [][NextBus]_vars
    /\ \A c \in Clients : WF_vars(pingTimer(c)) /\ WF_vars(closeEvent(c))

\* two transfers accepted at different times and executed without failure while the cap
\* is changed and processQueue runs, one invocation at a time
NextOrder ==
    \/ start
    \/ Tick
    \/ \E m \in AdminInputs : setMaxConcurrentExecutions(m)
    \/ \E o \in AcceptedOracles :
          Len(signedTransfers) < 2 /\ submitTransferAccepted(NextNonce, MaxTime + 1, o)
    \/ pqStart(1) \/ pqLaunch(1)
    \/ executeWithoutFailure
    \/ \E h \in 1..Len(chain) : Mine(h, "success")

SpecOrder == Init /\ [][NextOrder]_vars

\* an execution in which the select of the row may throw a retryable error
executeWithLoadError ==
    \E id \in RowIds :
        \/ execLoad(id)
        \/ execLoadThrows(id)
        \/ \E o \in {x \in StoredOracles : Healthy(x)} : execValidate(id, o)
        \/ execSetStatus(id)
        \/ execLogStatus(id)
        \/ execSubmit(id, "sent")
        \/ execSaveHash(id)
        \/ execWait(id, "receipt")
        \/ execConfirm(id)
        \/ execLogConfirmed(id)
        \/ execCatch(id)
        \/ execLogRetry(id)

\* one transfer, the queue started and stopped while invocations of processQueue, slots
\* and retry timers are under way
NextStop ==
    \/ start
    \/ stop
    \/ Elapse
    \/ \E o \in AcceptedOracles :
          signedTransfers = <<>> /\ submitTransferAccepted(NextNonce, MaxTime + 1, o)
    \/ \E p \in 1..MaxPQ : pqStart(p) \/ pqLaunch(p)
    \/ executeWithLoadError
    \/ \E t \in timers : retryTimer(t)
    \/ \E h \in 1..Len(chain) : Mine(h, "success")

SpecStop == Init /\ [][NextStop]_vars

\* two submissions in flight at once, of the same nonce or of different ones, and the
\* execution of the rows they create
NextRace ==
    \/ start
    \/ \E s \in 1..2 :
          \/ \E n \in 1..2, o \in IngestOracles : submitValidate(s, n, MaxTime + 1, o)
          \/ submitInsert(s)
          \/ submitLogReceived(s)
          \/ submitSetValidated(s)
          \/ submitLogValidated(s)
    \/ pqStart(1) \/ pqLaunch(1)
    \/ executeWithoutFailure
    \/ \E h \in 1..Len(chain) : Mine(h, "success")

SpecRace == Init /\ [][NextRace]_vars

\* line 240-244 when the insert of the "confirmed" event throws: the error reaches the
\* catch of line 280 after the row was set to "confirmed" (logTransferEvent, line 360-372,
\* catches nothing)
execLogConfirmedThrows(id, err) ==
    /\ exec[id].pc = "logConfirmed"
    /\ Fault(TRUE)
    /\ exec' = [exec EXCEPT ![id].pc = "catch", ![id].err = err]
    /\ UNCHANGED <<now, dbVars, chainVars, queueVars, processingQueue, timers, pq, otherVars>>

\* an execution that reaches its receipt and whose writes after it may fail
executeWithConfirmError ==
    \E id \in RowIds :
        \/ execLoad(id)
        \/ \E o \in {x \in StoredOracles : Healthy(x)} : execValidate(id, o)
        \/ execSetStatus(id)
        \/ execLogStatus(id)
        \/ execSubmit(id, "sent")
        \/ execSaveHash(id)
        \/ execWait(id, "receipt")
        \/ execConfirm(id)
        \/ execLogConfirmed(id)
        \/ \E err \in {"retryable", "fatal"} : execLogConfirmedThrows(id, err)
        \/ execCatch(id)
        \/ execLogRetry(id)

\* one transfer executed while the store may fail after the receipt
NextConfirmFaults ==
    \/ start
    \/ Tick
    \/ \E o \in AcceptedOracles :
          signedTransfers = <<>> /\ submitTransferAccepted(NextNonce, MaxTime + 1, o)
    \/ \E p \in 1..MaxPQ : pqStart(p) \/ pqLaunch(p)
    \/ executeWithConfirmError
    \/ \E t \in timers : retryTimer(t)
    \/ \E h \in 1..Len(chain) : Mine(h, "success")

SpecConfirmFaults == Init /\ [][NextConfirmFaults]_vars

\* two connections that subscribe, unsubscribe, close and are published to
NextTopics ==
    \/ \E c \in 1..2, throws \in BOOLEAN : handleConnection(c, throws)
    \/ \E c \in 1..2, topic \in Topics, throws \in BOOLEAN :
          \/ handleSubscription(c, topic, throws)
          \/ handleUnsubscription(c, topic, throws)
    \/ \E c \in 1..2 : socketCloses(c)
    \/ \E c \in 1..2 : closeEvent(c)
    \/ \E type \in BroadcastTypes, topic \in Topics \cup {NoTopic}, thrown \in SUBSET (1..2) :
          managerBroadcast(type, topic, thrown)

SpecTopics == Init /\ [][NextTopics]_vars

\* ================================================================ claims
InFlight(id) == \E s \in 1..MaxSubs : subs[s].pc # "idle" /\ subs[s].id = id

\* the submission that created the row with this nonce has returned success
Accepted(nonce) ==
    \E i \in RowIds : /\ signedTransfers[i].nonce = nonce
                      /\ signedTransfers[i].status # "received"
                      /\ ~InFlight(i)

\* C6: in every reachable state any two distinct persisted transfers have different
\* nonces, also when two submissions with the same nonce both pass the validator's
\* database check before either inserts
C6_NoncesDistinct ==
    \A i, j \in RowIds : i # j => signedTransfers[i].nonce # signedTransfers[j].nonce

\* the second of two concurrent submissions of one nonce was stopped by the store
C6_Witness ==
    /\ response.errors = {ErrUnique}
    /\ \E i \in RowIds : signedTransfers[i].nonce = response.nonce

\* a step in which submitTransfer returns at line 85, after validation
ValidationRejects == subs' = subs /\ response' # response

\* C7: a message whose nonce belongs to an accepted transfer does not pass validation
\* when it is submitted again: submitTransfer answers with errors containing
\* "Nonce already used" and the number of rows does not change
C7_ReplayRejected ==
    [][\A n \in Nonces : Accepted(n) =>
          /\ \A s \in 1..MaxSubs :
                ~(subs[s].pc = "idle" /\ subs'[s].pc = "insert" /\ subs'[s].nonce = n)
          /\ (ValidationRejects /\ response'.nonce = n) =>
                /\ ~response'.success
                /\ ErrNonceDb \in response'.errors
                /\ Len(signedTransfers') = Len(signedTransfers)]_vars

\* the replay of an accepted message has been answered
C7_Witness ==
    /\ Accepted(response.nonce)
    /\ ~response.success
    /\ ErrNonceDb \in response.errors
\* invocations of executeSignedTransfer that have started and not finished
InProgress == Cardinality({id \in Ids : exec[id].pc # "idle"})

\* C1: in every reachable state the number of executions in progress is at most the
\* configured cap, whatever the interleaving of scheduler ticks, submissions, retry
\* timers of the executor and admin changes of the cap
C1_WithinCap == InProgress <= maxConcurrentExecutions

\* C2: once the status of a transfer is confirmed, no later step changes its status,
\* its txHash or its blockNumber
C2_ConfirmedIsFinal ==
    [][\A id \in RowIds : signedTransfers[id].status = "confirmed" =>
          /\ signedTransfers'[id].status = "confirmed"
          /\ signedTransfers'[id].txHash = signedTransfers[id].txHash
          /\ signedTransfers'[id].blockNumber = signedTransfers[id].blockNumber]_vars

\* C3: once the status of a transfer is permanently_failed, it never changes again
C3_PermanentlyFailedIsFinal ==
    [][\A id \in RowIds : signedTransfers[id].status = "permanently_failed" =>
          signedTransfers'[id].status = "permanently_failed"]_vars

\* C4: after an event with status permanently_failed is appended to the log of a
\* transfer, no event with status validated, pending or confirmed is appended to it
C4_NothingAfterPermanentlyFailed ==
    [][\A id \in RowIds :
          (\E k \in 1..Len(transactionLogs[id]) :
              transactionLogs[id][k].status = "permanently_failed")
          => (Len(transactionLogs'[id]) > Len(transactionLogs[id]) =>
                transactionLogs'[id][Len(transactionLogs'[id])].status
                    \notin {"validated", "pending", "confirmed"})]_vars

\* C5: every transfer with status confirmed has a txHash and a blockNumber, and its
\* event log holds a confirmed event carrying that txHash
C5_ConfirmedHasEvidence ==
    \A id \in RowIds : signedTransfers[id].status = "confirmed" =>
        /\ signedTransfers[id].txHash # Null
        /\ signedTransfers[id].blockNumber # Null
        /\ \E k \in 1..Len(transactionLogs[id]) :
              /\ transactionLogs[id][k].status = "confirmed"
              /\ transactionLogs[id][k].txHash = signedTransfers[id].txHash

\* the transaction recorded for a pending transfer has been mined
PendingMined(id) ==
    /\ id \in RowIds
    /\ signedTransfers[id].status = "pending"
    /\ signedTransfers[id].txHash # Null
    /\ chain[signedTransfers[id].txHash].state = "success"

\* C8: a transfer that is pending with its transaction mined when the process restarts
\* is taken up again after the restart and ends in status confirmed
C8_PendingRecovered ==
    \A id \in Ids : (boots > 0 /\ PendingMined(id))
                        ~> (id \in RowIds /\ signedTransfers[id].status = "confirmed")

\* C9: whenever a transfer goes from failed to validated, at least 2^retryCount seconds
\* have passed since its most recent failed event
C9_BackoffSinceFailure ==
    [][\A id \in RowIds :
          (signedTransfers[id].status = "failed" /\ signedTransfers'[id].status = "validated")
          => now - failedAt[id] >= Pow2(signedTransfers[id].retryCount)]_vars

\* a transaction of this transfer was mined and reverted
Reverted(id) == \E h \in 1..Len(chain) : chain[h].id = id /\ chain[h].state = "reverted"

\* C10: a transfer whose transaction reverted is not retried: it does not go from
\* failed back to validated and no further transaction is sent for it
C10_RevertedNotRetried ==
    [][\A id \in RowIds : Reverted(id) =>
          /\ signedTransfers[id].status = "failed" => signedTransfers'[id].status # "validated"
          /\ Len(chain') > Len(chain) => chain'[Len(chain')].id # id]_vars
\* no execution, retry timer or scan is in flight
AtRest ==
    /\ \A id \in Ids : exec[id].pc = "idle"
    /\ timers = {}
    /\ \A p \in Invocations : pq[p].pc = "idle"

\* C11: after a retryable submission or receipt-wait error the re-execution scheduled
\* by the executor re-attempts the transfer, which ends in confirmed or failed: once
\* the retry timer has fired and nothing is in flight, no transfer is left in pending
C11_RetryLeavesPending ==
    AtRest => \A id \in RowIds : signedTransfers[id].status # "pending"
\* the re-validation of this transfer returns in this step
Revalidated(id) == exec[id].pc = "validate" /\ exec'[id].pc = "setStatus"

\* C12: when the re-validation of a validated transfer finds its deadline in the past,
\* the status it leads to is permanently_failed, never failed (nor any other)
C12_ExpiredIsPermanent ==
    [][\A id \in RowIds :
          (Revalidated(id) /\ now > signedTransfers[id].deadline)
          => exec'[id].st = "permanently_failed"]_vars
\* the status the executor writes when the re-validation of this transfer reads o
StatusUnder(id, o) ==
    StatusAfterValidation(validateSignedTransfer(signedTransfers[id], id, o),
                          exec[id].snapTx, exec[id].snapBlock)

\* C13: when the re-validation of a validated transfer fails because the sender's
\* withdrawal lockout is active, or because the deadline has expired, the executor
\* sets the transfer to permanently_failed, not to failed
C13_StateRejectedIsPermanent ==
    \A id \in RowIds, o \in StoredOracles :
        (exec[id].pc = "validate" /\ (o.grace = "lockout" \/ now > signedTransfers[id].deadline))
        => StatusUnder(id, o) = "permanently_failed"
LastEvent(id) == transactionLogs[id][Len(transactionLogs[id])].status

\* the failure of an execution that found retryCount at the maximum has been written
\* and logged
Exhausted(id) ==
    /\ signedTransfers[id].retryCount = MaxRetries
    /\ signedTransfers[id].status = "failed"
    /\ exec[id].pc = "idle"
    /\ LastEvent(id) = "failed"

\* C14: once the retryCount of a transfer equals the maximum, its next failure leaves
\* it in status failed for good: it is not flipped back to validated and no further
\* retry is scheduled for it
C14_ExhaustedIsFinal ==
    [][\A id \in RowIds :
          Exhausted(id) => /\ signedTransfers'[id].status = "failed"
                           /\ \A t \in timers' : t.id = id => t \in timers]_vars
\* a slot of executeSignedTransfer is between line 81 and the finally of line 328
Running(id) == exec[id].pc # "idle"

\* a retry timer makes its call of executeSignedTransfer
TimerCalls(t) == t \in timers /\ t \notin timers'

\* an invocation of processQueue runs its launch loop
LoopCalls(p) == pq[p].pc = "launch" /\ pq'[p].pc # "launch"

\* C15: for every transfer id at most one execution slot is past the per-id guard: the
\* guard is held exactly while the slot runs, and a call of executeSignedTransfer for
\* an id whose slot is running (by a retry timer or by the launch loop) returns without
\* touching the row, the running slot or its guard
C15_OneSlotPerId ==
    /\ [](\A id \in Ids : id \in processingQueue <=> Running(id))
    /\ [][/\ \A t \in timers :
                (TimerCalls(t) /\ Running(t.id))
                => UNCHANGED <<signedTransfers, transactionLogs, exec, processingQueue>>
          /\ \A p \in Invocations, id \in Ids :
                (LoopCalls(p) /\ Running(id))
                => /\ exec'[id] = exec[id]
                   /\ id \in processingQueue'
                   /\ UNCHANGED <<signedTransfers, transactionLogs>>]_vars

\* a retry timer is due for a transfer whose slot is running
C15_Witness ==
    \E t \in timers : now >= t.due /\ Running(t.id) /\ t.id \in processingQueue

\* the lifecycle graph of a transfer
Edges ==
    {<<"received", "validated">>, <<"validated", "pending">>, <<"validated", "failed">>,
     <<"validated", "permanently_failed">>, <<"validated", "confirmed">>,
     <<"pending", "confirmed">>, <<"pending", "failed">>, <<"failed", "validated">>}

\* the status an event of transaction_logs stands for; "retry" records no change
StatusOf(event) == IF event.status = "retry_queued" THEN "validated" ELSE event.status

StatusEvents(id) == SelectSeq(transactionLogs[id], LAMBDA e : e.status # "retry")

\* no handler is between an update of a row and the insert of its event
NoWriter ==
    /\ \A id \in Ids : exec[id].pc = "idle"
    /\ \A p \in Invocations : pq[p].pc = "idle"
    /\ \A s \in 1..MaxSubs : subs[s].pc = "idle"

\* C16: every status change of a transfer follows an edge of the lifecycle graph, and
\* the event log of the transfer lists those changes in the order they happened: once
\* every handler has written its event, the latest event is the current status
C16_LifecycleOrder ==
    /\ [][\A id \in RowIds :
             signedTransfers'[id].status # signedTransfers[id].status
             => <<signedTransfers[id].status, signedTransfers'[id].status>> \in Edges]_vars
    /\ [](NoWriter =>
             \A id \in RowIds :
                 /\ StatusEvents(id) # <<>>
                 /\ StatusOf(StatusEvents(id)[Len(StatusEvents(id))])
                       = signedTransfers[id].status)

\* confirmed, permanently_failed, or failed with the retries exhausted
Terminal(id) ==
    \/ signedTransfers[id].status \in {"confirmed", "permanently_failed"}
    \/ signedTransfers[id].status = "failed" /\ signedTransfers[id].retryCount >= RetryQueueMaxRetries

\* C17: under fair scheduling every transfer that reaches status validated eventually
\* reaches a terminal state
C17_EventuallyTerminal ==
    \A id \in Ids : (id \in RowIds /\ signedTransfers[id].status = "validated")
                        ~> (id \in RowIds /\ Terminal(id))
\* the events of transaction_logs that record a status transition made by the queue or
\* the executor
TransitionEvents(id) ==
    SelectSeq(transactionLogs[id],
              LAMBDA e : e.status \in {"pending", "confirmed", "failed", "permanently_failed",
                                       "retry_queued"})

\* the messages about a status transition handed to the WebSocketManager for a topic
TransitionMessages(id, topic) ==
    SelectSeq(wsMessages[id],
              LAMBDA m : /\ m.topic = topic
                         /\ m.type \in {"payment_pending", "payment_confirmed", "payment_failed"})

\* C18: every status transition of a transfer publishes a message both globally and on
\* the topic transfer:<id>: on either channel there are at least as many messages as
\* there are recorded transitions
C18_TransitionsPublished ==
    \A id \in RowIds, topic \in {NoTopic, TransferTopic} :
        Len(TransitionEvents(id)) <= Len(TransitionMessages(id, topic))

\* what a connected client subscribed to transfer:<id> is sent about the transfer: the
\* broadcasts without topic go to every client, those of the topic to its subscribers
Received(id) == wsMessages[id]

\* the status a message reports
ReportedStatus(m) ==
    CASE m.type = "payment_accepted" -> "validated"
      [] m.type = "payment_pending" -> "pending"
      [] m.type = "payment_confirmed" -> "confirmed"
      [] m.type = "payment_failed" -> "failed"
      [] OTHER -> "none"

RECURSIVE IsSubsequence(_, _)
IsSubsequence(a, b) ==
    IF a = <<>> THEN TRUE
    ELSE IF b = <<>> THEN FALSE
    ELSE IF Head(a) = Head(b) THEN IsSubsequence(Tail(a), Tail(b))
    ELSE IsSubsequence(a, Tail(b))

StatusSeq(events) == [k \in 1..Len(events) |-> StatusOf(events[k])]

ReportedSeq(messages) ==
    LET reported == SelectSeq(messages, LAMBDA m : ReportedStatus(m) # "none")
    IN [k \in 1..Len(reported) |-> ReportedStatus(reported[k])]

\* C19: a client subscribed to transfer:<id> from the start receives exactly the
\* transitions that occurred, each at most once and in the order they occurred: the
\* statuses it is told are a subsequence of the recorded status changes
C19_SubscriberSeesTransitions ==
    \A id \in RowIds : IsSubsequence(ReportedSeq(Received(id)), StatusSeq(StatusEvents(id)))
\* line 278: Object.values(checks).every(Boolean)
AllFlags(validation) == \A f \in DOMAIN validation.checks : validation.checks[f]

\* C20: for every outcome of the checks and of the oracle reads, failing reads included,
\* validateSignedTransfer returns isValid = true if and only if all six flags are true
C20_ValidIffAllFlags ==
    \A id \in RowIds, o \in Oracles :
        LET validation == validateSignedTransfer(signedTransfers[id], id, o)
        IN validation.isValid <=> AllFlags(validation)

\* the submitTransfer call s returns failure
ReportsFailure(s) == subs[s].pc # "idle" /\ subs'[s].pc = "idle" /\ ~response'.success

\* C21: whenever submitTransfer reports failure it has created no persistent row, and a
\* row becomes validated in the write that creates it, so that no persisted transfer is
\* ever observable in status received
C21_IngestAtomic ==
    /\ [](\A id \in RowIds : signedTransfers[id].status # "received")
    /\ [][\A s \in 1..MaxSubs : ReportsFailure(s) => subs[s].id = Null]_vars

\* a store operation of the submitTransfer call s throws
StoreFails(s) == ReportsFailure(s) /\ ErrStore \in response'.errors

\* C22: when a store operation fails during a submission, the submission endpoint
\* answers 500 with a generic message, not 400 and not the store's error text
C22_StoreFailureIs500 ==
    [][\A s \in 1..MaxSubs :
          StoreFails(s) => HttpStatus(response') = 500 /\ ErrStore \notin response'.errors]_vars
\* C24: in every reachable state maxConcurrentExecutions is between 1 and 10 inclusive:
\* setMaxConcurrentExecutions clamps any value into the range, and the admin endpoint
\* answers 400 to a value outside it without changing the cap
C24_CapInRange ==
    /\ [](maxConcurrentExecutions \in MinConcurrent..MaxConcurrent)
    /\ [][(httpAnswer' # httpAnswer /\ httpAnswer' = Answer("admin", 400))
             => UNCHANGED maxConcurrentExecutions]_vars

\* the endpoint has rejected a value after the setter clamped another to the upper limit
C24_Witness ==
    httpAnswer = Answer("admin", 400) /\ maxConcurrentExecutions = MaxConcurrent
\* the requests of a client the limiter passed within the window that ends now
Admitted(client) == Len(recentRequests(client))

\* a step in which the limiter handles a request of the client to the route
Handles(client, route) ==
    /\ httpAnswer'.route = route
    /\ httpAnswer'.client = client
    /\ httpAnswer' # httpAnswer \/ rateLimitMap' # rateLimitMap

\* C23: for each client address at most 10 requests are admitted in any 60-second
\* window and the next one is answered 429 with retryAfter; a rejected request does not
\* consume quota; and the window counts only requests to the submission endpoint, so a
\* request to another route leaves the window of its client as it was
C23_WindowOfSubmissions ==
    /\ [](\A client \in Clients : Admitted(client) <= RateLimitMax)
    /\ [][\A client \in Clients, route \in Routes :
             (Handles(client, route) /\ Admitted(client) = RateLimitMax)
                => /\ httpAnswer'.status = 429
                   /\ httpAnswer'.retryAfter = RateLimitWindow
                   /\ UNCHANGED rateLimitMap]_vars
    /\ [][\A client \in Clients :
             Handles(client, "health") => UNCHANGED rateLimitMap]_vars

\* the client is in no table of the manager
Evicted(clientId) ==
    /\ clientId \notin DOMAIN clients
    /\ \A t \in DOMAIN subscriptions : clientId \notin subscriptions[t]

\* C25: a connected client that stops responding to the transport pings is eventually
\* removed from the client table and from the subscriber set of every topic
C25_SilentClientEvicted ==
    \A c \in Clients :
       (c \in DOMAIN clients /\ ~sockets[c].responsive) ~> Evicted(c)

\* C26: when a broadcast reaches a subscriber whose connection is not open or whose
\* send fails, the copy of that subscriber is dropped and the subscriber is removed from
\* the client table and from every topic's subscriber set, while every other subscriber
\* receives the message
C26_BroadcastEvicts ==
    [][\A type \in BroadcastTypes, topic \in Topics \cup {NoTopic}, thrown \in SUBSET Clients :
          managerBroadcast(type, topic, thrown)
             => \A c \in Targets(topic) :
                   IF sockets[c].readyState # "OPEN" \/ c \in thrown
                   THEN /\ sockets'[c].received = sockets[c].received
                        /\ Evicted(c)'
                   ELSE sockets'[c].received = Append(sockets[c].received, type)]_vars

\* the statuses of the events of a transfer, in the order of the log
LoggedStatuses(id) == [k \in 1..Len(transactionLogs[id]) |-> transactionLogs[id][k].status]

\* the log of the transfer is complete: its confirmed event is written
LoggedConfirmed(id) ==
    /\ signedTransfers[id].status = "confirmed"
    /\ transactionLogs[id] # <<>>
    /\ LastEvent(id) = "confirmed"

\* C27: the event log of a transfer that was accepted and executed without any failure
\* holds, in this order, events with status received, validated, pending, submitted
\* (carrying the txHash) and confirmed (carrying the blockNumber)
C27_HappyPathEvents ==
    \A id \in RowIds :
       LoggedConfirmed(id) =>
          /\ IsSubsequence(<<"received", "validated", "pending", "submitted", "confirmed">>,
                           LoggedStatuses(id))
          /\ \A k \in 1..Len(transactionLogs[id]) :
                /\ transactionLogs[id][k].status = "submitted"
                      => transactionLogs[id][k].txHash = signedTransfers[id].txHash
                /\ transactionLogs[id][k].status = "confirmed"
                      => transactionLogs[id][k].txHash = signedTransfers[id].blockNumber

\* C28: the deadline check accepts a transfer when the current time in seconds equals
\* its deadline, and rejects it, with deadlineValid false and the error "Transfer
\* deadline has expired", when the current time is deadline + 1 or later
C28_DeadlineBoundary ==
    \A nonce \in Nonces, deadline \in Deadlines, o \in AcceptedOracles :
       LET validation ==
               validateSignedTransfer([nonce |-> nonce, deadline |-> deadline], Null, o)
       IN  /\ now = deadline
              => validation.checks.deadlineValid /\ ErrDeadline \notin validation.errors
           /\ now >= deadline + 1
              => ~validation.checks.deadlineValid /\ ErrDeadline \in validation.errors
                 /\ ~validation.isValid

\* a transfer stored at the very second of its deadline, and a later one refused one
\* second after the same deadline
C28_Witness ==
    /\ \E id \in RowIds : signedTransfers[id].deadline = signedTransfers[id].createdAt
    /\ now = 1
    /\ response.errors = {ErrDeadline}

\* the re-validation of the transfer ends in the shortcut: confirmed, nothing submitted
TakesShortcut(id) == Revalidated(id) /\ exec'[id].st = "confirmed"

\* C29: the executor marks a validated transfer confirmed without an on-chain submission
\* only when the re-validation failed solely with the on-chain nonce-used error and the
\* row has a txHash and a blockNumber; with a further validation error, such as an
\* expired deadline, it does not take the shortcut
C29_ShortcutOnlyOnNonce ==
    [][\A id \in RowIds :
          TakesShortcut(id)
          => /\ exec[id].snapTx # Null
             /\ exec[id].snapBlock # Null
             /\ signedTransfers[id].nonce \in usedNonces
             /\ now <= signedTransfers[id].deadline]_vars

\* the flips of the transfer from failed back to validated that the log records
RetryQueued(id) ==
    Len(SelectSeq(transactionLogs[id], LAMBDA e : e.status = "retry_queued"))

\* C30: every flip of a transfer from failed back to validated is matched by an
\* increment of its retryCount, so a transfer is flipped at most 3 times and one whose
\* re-validation keeps failing transiently does not cycle without bound
C30_FlipsCounted ==
    /\ [](\A id \in RowIds : RetryQueued(id) <= signedTransfers[id].retryCount)
    /\ [](\A id \in RowIds : RetryQueued(id) <= MaxRetries)
    /\ [][\A id \in RowIds :
             (signedTransfers[id].status = "failed" /\ signedTransfers'[id].status = "validated")
             => signedTransfers[id].retryCount > RetryQueued(id)]_vars

\* the execution slots launched by processQueue that have not completed
LaunchedSlots == {id \in Ids : Running(id) /\ exec[id].queued}

\* the slot of the transfer, launched by processQueue, completes
SlotCompletes(id) ==
    Running(id) /\ exec[id].queued /\ exec'[id].pc = "idle" /\ boots' = boots

\* C31: currentExecutions is never negative and equals the number of execution slots
\* launched by processQueue that have not completed; every launched slot decrements it
\* exactly once, however it ends, and a launch loop adds one for each slot it starts,
\* nothing for a call that exits at the guard
C31_SlotsCounted ==
    /\ [](currentExecutions >= 0 /\ currentExecutions = Cardinality(LaunchedSlots))
    /\ [][\A id \in Ids :
             SlotCompletes(id) => currentExecutions' = currentExecutions - 1]_vars
    /\ [][\A p \in Invocations :
             (LoopCalls(p) /\ boots' = boots)
             => currentExecutions' = currentExecutions
                                     + Cardinality({id \in Ids : ~Running(id) /\ Running(id)'})]_vars

\* a slot launched by processQueue has failed and given its slot back, and the call of
\* its retry timer, which holds no slot, runs while processQueue is in its launch loop
C31_Witness ==
    /\ currentExecutions = 0
    /\ \E id \in RowIds : /\ signedTransfers[id].retryCount > 0
                          /\ Running(id)
                          /\ ~exec[id].queued
    /\ \E p \in Invocations : pq[p].pc = "launch"

\* an invocation of processQueue makes its select of validated transfers
SelectCalls(p) == pq[p].pc = "idle" /\ pq'[p].pc = "launch"

\* the launch loop starts the slot of the transfer
Launches(id) == exec[id].pc = "idle" /\ exec'[id].pc # "idle"

\* C32: on each tick the transfers launched are the oldest validated transfers by
\* createdAt, at most cap - inFlight of them: the select takes no transfer while it leaves
\* an older validated one out, and the loop launches what was selected oldest first, so
\* no transfer is launched while an older selected one is left unlaunched
C32_OldestFirst ==
    /\ [][\A p \in Invocations :
             SelectCalls(p)
             => /\ Len(pq'[p].sel) <= maxConcurrentExecutions - currentExecutions
                /\ \A k \in 1..Len(pq'[p].sel) :
                      /\ signedTransfers[pq'[p].sel[k]].status = "validated"
                      /\ \A j \in RowIds :
                            (/\ signedTransfers[j].status = "validated"
                             /\ signedTransfers[j].createdAt
                                   < signedTransfers[pq'[p].sel[k]].createdAt)
                            => \E m \in 1..Len(pq'[p].sel) : pq'[p].sel[m] = j]_vars
    /\ [][\A p \in Invocations :
             LoopCalls(p)
             => /\ Cardinality({id \in Ids : Launches(id)})
                      <= Max(0, maxConcurrentExecutions - currentExecutions)
                /\ \A k \in 1..Len(pq[p].sel) :
                      Launches(pq[p].sel[k])
                      => \A m \in 1..(k - 1) : exec'[pq[p].sel[m]].pc # "idle"]_vars

\* the cap leaves room for one slot; of two validated transfers the older one was
\* launched and the younger one waits
C32_Witness ==
    /\ maxConcurrentExecutions = 1
    /\ \E older, younger \in RowIds :
          /\ signedTransfers[older].createdAt < signedTransfers[younger].createdAt
          /\ Running(older)
          /\ exec[older].queued
          /\ signedTransfers[younger].status = "validated"
          /\ ~Running(younger)

\* the slot of the transfer reads the row and finds a status other than validated
LoadsUnvalidated(id) ==
    /\ exec[id].pc = "load"
    /\ exec'[id].pc # "load"
    /\ signedTransfers[id].status # "validated"
    /\ boots' = boots

\* C33: an execution slot that loads a transfer whose status is not validated exits: it
\* leaves the row, the event log and the bus untouched, starts no timer and no
\* transaction, and releases the per-id guard
C33_LostRaceExits ==
    [][\A id \in RowIds :
          LoadsUnvalidated(id)
          => /\ UNCHANGED <<signedTransfers, transactionLogs, wsMessages, chain, timers>>
             /\ exec'[id].pc = "idle"
             /\ id \notin processingQueue']_vars

\* the call of a retry timer holds the guard of a transfer that the failed attempt left
\* pending, and is about to read its row
C33_Witness ==
    \E id \in RowIds :
       /\ exec[id].pc = "load"
       /\ ~exec[id].queued
       /\ id \in processingQueue
       /\ signedTransfers[id].status = "pending"
       /\ signedTransfers[id].retryCount > 0

\* stop() has returned and start() was not called since
Stopped == ~isProcessing /\ ~isProcessing'

\* C34: after stop() has returned no new execution of any transfer begins: neither a
\* retry timer of the executor nor an invocation of processQueue that runs afterwards
\* starts an execution slot
C34_StoppedStartsNothing ==
    /\ [][\A t \in timers :
             (Stopped /\ TimerCalls(t)) => ~Launches(t.id)]_vars
    /\ [][\A p \in Invocations, id \in Ids :
             (Stopped /\ LoopCalls(p)) => ~Launches(id)]_vars

\* the rows stored with a nonce
RowsOf(n) == {i \in RowIds : signedTransfers[i].nonce = n}

\* the submissions of a nonce that have inserted a row and not returned yet
Winners(n) == {s \in 1..MaxSubs : subs[s].nonce = n /\ subs[s].id # Null}

\* submission s leaves its insert
Inserts(s) == subs[s].pc = "insert" /\ subs'[s].pc # "insert"

\* C35: of two submissions of one nonce that are processed concurrently one creates the
\* row and goes on to be accepted, the other returns success = false, creates no row and
\* holds no transfer id, so that every execution slot belongs to the single row of a nonce
C35_OneOfTwoAccepted ==
    /\ [](\A n \in Nonces : Cardinality(RowsOf(n)) <= 1 /\ Cardinality(Winners(n)) <= 1)
    /\ [](\A id \in Ids : Running(id) => id \in RowIds)
    /\ [][\A s, r \in 1..MaxSubs :
             (s # r /\ Inserts(s) /\ subs[r].pc = "insert" /\ subs[r].nonce = subs[s].nonce)
                => /\ ~NonceTaken(subs[s].nonce) =>
                         /\ Len(signedTransfers') = Len(signedTransfers) + 1
                         /\ subs'[s].id = Len(signedTransfers')
                         /\ signedTransfers'[subs'[s].id].nonce = subs[s].nonce
                   /\ subs'[r] = subs[r]]_vars
    /\ [][\A s \in 1..MaxSubs :
             (Inserts(s) /\ NonceTaken(subs[s].nonce))
                => /\ response' = Response(subs[s].nonce, FALSE, Null, {ErrUnique})
                   /\ subs'[s] = IdleSub
                   /\ UNCHANGED <<signedTransfers, transactionLogs, exec, currentExecutions,
                                  processingQueue>>]_vars
    /\ [][\A s \in 1..MaxSubs :
             (subs[s].pc = "logValidated" /\ subs'[s].pc = "idle")
                => response' = Response(subs[s].nonce, TRUE, subs[s].id, {})]_vars

\* the loser of a race has been answered while the winner's row is being executed
C35_Witness ==
    /\ response.errors = {ErrUnique}
    /\ ~response.success
    /\ Cardinality(RowsOf(response.nonce)) = 1
    /\ \E i \in RowsOf(response.nonce) : Running(i)
    /\ Len(signedTransfers) = 1

\* the transactions of a transfer that are neither mined nor reverted
Outstanding(id) == {h \in 1..Len(chain) : chain[h].id = id /\ chain[h].state = "sent"}

\* C36: no transfer has two of its transactions outstanding at once: a new on-chain
\* submission of a transfer is made only when every earlier one has been mined or has
\* reverted
C36_OneOutstanding == \A id \in Ids : Cardinality(Outstanding(id)) <= 1

\* C37: a row that the executor has set to "confirmed" is not set to "failed" by the
\* same execution slot, whatever is thrown after the write
C37_ConfirmedStays ==
    [][\A id \in RowIds :
          (signedTransfers[id].status = "confirmed" /\ Running(id) /\ boots' = boots)
             => signedTransfers'[id].status # "failed"]_vars

\* the topic table lists clientId under topic
Listed(clientId, topic) == topic \in DOMAIN subscriptions /\ clientId \in subscriptions[topic]

\* the client table holds clientId with topic in its own set
Holds(clientId, topic) == clientId \in DOMAIN clients /\ topic \in clients[clientId].subscriptions

\* C38: the topic table and the client table agree on who is subscribed to what, no
\* topic is kept with an empty set, and a message published on a topic is written once
\* to clients listed under that topic and to nobody else
C38_TablesAgree ==
    /\ [](\A c \in Clients, topic \in Topics : Listed(c, topic) <=> Holds(c, topic))
    /\ [](\A topic \in DOMAIN subscriptions : subscriptions[topic] # {})
    /\ [][\A type \in BroadcastTypes, topic \in Topics, thrown \in SUBSET Clients :
             managerBroadcast(type, topic, thrown)
                => \A c \in Clients :
                      \/ sockets'[c].received = sockets[c].received
                      \/ /\ Listed(c, topic)
                         /\ sockets'[c].received = Append(sockets[c].received, type)]_vars

\* a publication reached the subscriber of a topic and not the client that had left it
C38_Witness ==
    \E c, d \in Clients :
       /\ Listed(c, TransferTopic) /\ ~Listed(d, TransferTopic)
       /\ d \in DOMAIN clients
       /\ "other" \notin DOMAIN subscriptions
       /\ sockets[c].received = <<"connected", "subscribed", "payment_confirmed">>
       /\ sockets[d].received = <<"connected", "subscribed", "unsubscribed">>

====
